---- MODULE Spec2Model ----
(***************************************************************************)
(* A model of satran/plumb, an interactive terminal pager (src/main.go).   *)
(* The file holds two prototypes of the program:                           *)
(*   - the termbox variant (lines 329-583): a line store fed by a          *)
(*     background goroutine, a viewport (selline, topline, cy) moved by    *)
(*     key events and painted by draw.  Specification: Spec.               *)
(*   - the raw-mode variant (lines 1-327): the escape-sequence decoder     *)
(*     readKey and the draw/keypress loop of main.  Specification: SpecKey.*)
(***************************************************************************)
EXTENDS Integers, Sequences, FiniteSets, TLC

\* ------------------------------------------------------------------------
\* Bounds of the model
\* ------------------------------------------------------------------------
\* Largest number of terminal rows drawn for t.rows.
MaxRows == 2
\* Largest number of bytes the standard input delivers in a session.
MaxBytes == 3
\* Largest number of bytes one Write call receives.
MaxChunk == 2
\* Largest number of bytes of a line whose painting is followed cell by cell.
MaxLine == 3
\* Largest number of unread bytes at the terminal at which another key
\* press is still accepted (raw-mode variant).
MaxTypeAhead == 1
\* The number of columns getWindowSize reports (raw-mode variant).
TermCols == 2

\* ------------------------------------------------------------------------
\* Bytes
\* ------------------------------------------------------------------------
NL == 10
LetterA == 97

LetterB == 98
TAB == 9
SPACE == 32

\* The bytes standard input can carry in the model.
StdinBytes == {LetterA, NL}

VARIABLES
    \* ---- termbox variant ----
    lines,      \* lineReader.lines: a sequence of byte sequences
    written,    \* history: every byte passed to Write so far, in order
    selline,    \* terminal.selline
    topline,    \* terminal.topline
    cx,         \* terminal.cx
    cy,         \* terminal.cy
    rows,       \* terminal.rows
    fpc,        \* position of the foreground goroutine (main's loop)
    key,        \* the arrow key moveCursor is being called with
    times,      \* remaining iterations of keypress's moveCursor loop
    fy,         \* row counter y of the foreground draw
    fframe,     \* line indices the foreground draw has read so far
    bpc,        \* position of the background goroutine (terminal.read)
    ncopied,    \* n of the running io.Copy: bytes written so far
    by,         \* row counter y of the background draw
    bframe,     \* line indices the background draw has read so far
    tmode,      \* mode of the terminal: "raw" after termbox.Init, else "cooked"
    status,     \* "running", or how the process ended
    mvpre,      \* history: selline, topline and Rows() as the last call
                \* of moveCursor that changed them found them, and whether
                \* it has returned; NoMove once the frame is drawn
    pgpre,      \* history: the last KeyPgup / KeyPgdn event, with selline
                \* and Rows() as it found them, the calls of moveCursor
                \* that have returned and whether the last of them has;
                \* NoPage once the frame is drawn
    \* ---- raw-mode variant ----
    ksrc,       \* bytes the terminal holds that the process has not read
    kbuf,       \* bytes buffered in t.tty, the bufio.Reader over /dev/tty
    kcall,      \* history: the last call of readKey, until the next event
    kcx,        \* terminal.cx
    kcols,      \* terminal.cols
    kpc,        \* position of main's loop
    kmode,      \* mode of the terminal: "raw" after enableRawMode
    kstatus,    \* "running", or how the process ended
    kreason,    \* the error handed to fatal
    \* ---- draw of one row ----
    dline,      \* line: the bytes of the row being painted
    di,         \* number of runes of line the range loop has handled
    dx,         \* x: the column of the next cell
    dat,        \* history: the value of x at which each rune was handled
    dcells,     \* history: the SetCell calls of the row, in order
    dpc         \* position in the row: "idle", "runes" or "done"

tvars == <<lines, written, selline, topline, cx, cy, rows, fpc, key, times,
           fy, fframe, bpc, ncopied, by, bframe, tmode, status,
           mvpre, pgpre>>

kvars == <<ksrc, kbuf, kcall, kcx, kcols, kpc, kmode, kstatus, kreason>>

dvars == <<dline, di, dx, dat, dcells, dpc>>

vars == <<tvars, kvars, dvars>>

\* ------------------------------------------------------------------------
\* lineReader (src/main.go:389-424)
\* ------------------------------------------------------------------------
\* One iteration of Write's loop over p: a newline starts a new empty line,
\* any other byte is appended to the last line.
WriteByte(ls, b) ==
    IF b = NL
    THEN Append(ls, <<>>)
    ELSE [ls EXCEPT ![Len(ls)] = Append(ls[Len(ls)], b)]

RECURSIVE WriteLoop(_, _)
WriteLoop(ls, p) ==
    IF p = <<>> THEN ls
    ELSE WriteLoop(WriteByte(ls, Head(p)), Tail(p))

\* lineReader.Write: an empty store first gets one empty line.
Write(ls, p) ==
    WriteLoop(IF Len(ls) = 0 THEN <<<<>>>> ELSE ls, p)

\* lineReader.Rows
Rows(ls) == Len(ls)

\* Line with the bound check off by one: the last line is reported missing.
LineOffByOne(ls, i) ==
    IF i >= Len(ls) - 1 THEN [err |-> TRUE, line |-> <<>>]
    ELSE [err |-> FALSE, line |-> ls[i + 1]]

\* lineReader.Line: the pair the call returns, (nil, "line not found") or
\* (l.lines[i], nil).
NotFound == [err |-> TRUE, line |-> <<>>]
Line(ls, i) ==
    IF i >= Len(ls) THEN NotFound ELSE [err |-> FALSE, line |-> ls[i + 1]]

\* ------------------------------------------------------------------------
\* Initial state of the termbox variant (main, src/main.go:360-378)
\* ------------------------------------------------------------------------
NoMove == [sel |-> -1, top |-> -1, n |-> -1, done |-> TRUE]
NoPage == [ev |-> "none", sel |-> -1, n |-> -1, calls |-> 0, done |-> TRUE]
TInit ==
    /\ lines = <<>>
    /\ written = <<>>
    /\ selline = 0
    /\ topline = 0
    /\ cx = 0
    /\ cy = 0
    /\ rows \in 1..MaxRows
    /\ fpc = "poll"
    /\ key = "none"
    /\ times = 0
    /\ fy = 0
    /\ fframe = <<>>
    /\ bpc = "copy"
    /\ ncopied = 0
    /\ by = 0
    /\ bframe = <<>>
    /\ tmode = "raw"
    /\ status = "running"
    /\ mvpre = NoMove
    /\ pgpre = NoPage

\* ------------------------------------------------------------------------
\* The foreground goroutine: main's loop over keypress (src/main.go:379-386)
\* ------------------------------------------------------------------------
\* fatal (src/main.go:363-366): termbox.Close, then log.Fatal.
Fatal ==
    /\ tmode' = "cooked"
    /\ status' = "fatal"

\* keypress hands over to draw (return t.draw()).
StartDraw ==
    /\ fpc' = "draw"
    /\ fy' = 0
    /\ fframe' = <<>>
    /\ pgpre' = (IF pgpre = NoPage THEN NoPage
                 ELSE [pgpre EXCEPT !.calls = @ + 1, !.done = TRUE])

\* keypress, KeyArrowUp / KeyArrowDown: one call of moveCursor.
FgKeyArrow ==
    /\ status = "running" /\ fpc = "poll"
    /\ \E ev \in {"ArrowUp", "ArrowDown"} :
        /\ key' = ev
        /\ times' = 1
        /\ fpc' = "mc"
    /\ UNCHANGED <<lines, written, selline, topline, cx, cy, rows, fy, fframe,
                   bpc, ncopied, by, bframe, tmode, status, mvpre, pgpre>>
    /\ UNCHANGED <<kvars, dvars>>

\* keypress, KeyPgup / KeyPgdn: times := t.rows.
\* (PageTimesShort is one call short.)
PageTimesShort(r) == r - 1
PageTimes(r) == r

\* keypress, KeyPgup / KeyPgdn: t.rows calls of moveCursor.
FgKeyPage ==
    /\ status = "running" /\ fpc = "poll"
    /\ \E ev \in {"Pgup", "Pgdn"} :
        /\ key' = (IF ev = "Pgup" THEN "ArrowUp" ELSE "ArrowDown")
        /\ times' = PageTimes(rows)
        /\ IF PageTimes(rows) > 0
           THEN /\ fpc' = "mc"
                /\ pgpre' = [ev |-> ev, sel |-> selline, n |-> Rows(lines),
                             calls |-> 0, done |-> FALSE]
                /\ UNCHANGED <<fy, fframe>>
           ELSE StartDraw
    /\ UNCHANGED <<lines, written, selline, topline, cx, cy, rows,
                   bpc, ncopied, by, bframe, tmode, status, mvpre>>
    /\ UNCHANGED <<kvars, dvars>>

\* keypress, KeyEnter: return t.exec().
FgKeyEnter ==
    /\ status = "running" /\ fpc = "poll"
    /\ fpc' = "exec"
    /\ UNCHANGED <<lines, written, selline, topline, cx, cy, rows, key, times,
                   fy, fframe, bpc, ncopied, by, bframe, tmode, status>>
    /\ UNCHANGED <<mvpre, pgpre>>
    /\ UNCHANGED <<kvars, dvars>>

\* keypress, KeyCtrlQ: return errExit; main returns and the deferred
\* termbox.Close runs.
FgKeyQuit ==
    /\ status = "running" /\ fpc = "poll"
    /\ status' = "clean"
    /\ tmode' = "cooked"
    /\ UNCHANGED <<lines, written, selline, topline, cx, cy, rows, fpc, key,
                   times, fy, fframe, bpc, ncopied, by, bframe>>
    /\ UNCHANGED <<mvpre, pgpre>>
    /\ UNCHANGED <<kvars, dvars>>

\* The keys without a case in the switch of keypress.
OtherKeys == {"Home", "End", "Esc"}

\* keypress with a case for KeyHome that selects the first line.
FgKeyOtherHome ==
    /\ status = "running" /\ fpc = "poll"
    /\ \E ev \in OtherKeys :
        /\ key' = ev
        /\ StartDraw
        /\ IF ev = "Home"
           THEN selline' = 0 /\ topline' = 0 /\ cy' = 0
           ELSE UNCHANGED <<selline, topline, cy>>
    /\ UNCHANGED <<lines, written, cx, rows, times,
                   bpc, ncopied, by, bframe, tmode, status>>
    /\ UNCHANGED mvpre
    /\ UNCHANGED <<kvars, dvars>>

\* keypress, any key without a case in the switch (Home and End among
\* them): nothing but the draw.
FgKeyOther ==
    /\ status = "running" /\ fpc = "poll"
    /\ \E ev \in OtherKeys :
        /\ key' = ev
        /\ StartDraw
    /\ UNCHANGED <<lines, written, selline, topline, cx, cy, rows, times,
                   bpc, ncopied, by, bframe, tmode, status>>
    /\ UNCHANGED mvpre
    /\ UNCHANGED <<kvars, dvars>>

\* keypress, an event that is no key event: return nil.
FgNonKey ==
    /\ status = "running" /\ fpc = "poll"
    /\ UNCHANGED tvars
    /\ UNCHANGED <<kvars, dvars>>

\* moveCursor returns into keypress: next iteration of the loop, or draw.
Return ==
    /\ times' = times - 1
    /\ mvpre' = [mvpre EXCEPT !.done = TRUE]
    /\ IF times - 1 > 0
       THEN /\ fpc' = "mc"
            /\ pgpre' = (IF pgpre = NoPage THEN NoPage
                         ELSE [pgpre EXCEPT !.calls = @ + 1])
            /\ UNCHANGED <<fy, fframe>>
       ELSE StartDraw

\* moveCursor is past its first guard.
Enter ==
    /\ mvpre' = [sel |-> selline, top |-> topline, n |-> Rows(lines),
                 done |-> FALSE]
    /\ UNCHANGED pgpre

\* The guards of moveCursor.
AtFirstLine(sel) == sel = 0
\* (TopAtZeroLate takes the branch of the unscrolled window also at 1.)
TopAtZeroLate(top) == top <= 1
TopAtZero(top) == top = 0
CursorAtTop(c) == c = 0
\* (AtLastRowLate and CursorAtBottomLate are the same guards off by one.)
AtLastRowLate(sel, n) == sel >= n
AtLastRow(sel, n) == sel >= n - 1
\* (TopAtLastRowEarly is the same guard off by one.)
TopAtLastRowEarly(top, n) == top >= n - 2
TopAtLastRow(top, n) == top >= n - 1
CursorAtBottomLate(c, r) == c > r - 1
\* (CursorAtBottomEarly slides the window one row before the last.)
CursorAtBottomEarly(c, r) == c >= r - 2
CursorAtBottom(c, r) == c >= r - 1

\* moveCursor(KeyArrowUp), up to its first assignment.
FgMoveUp ==
    /\ status = "running" /\ fpc = "mc" /\ key = "ArrowUp"
    /\ IF AtFirstLine(selline)
       THEN Return /\ UNCHANGED <<selline, cy>>
       ELSE IF TopAtZero(topline)
       THEN /\ cy' = cy - 1
            /\ fpc' = "mcu0"
            /\ Enter
            /\ UNCHANGED <<selline, times, fy, fframe>>
       ELSE /\ selline' = selline - 1
            /\ fpc' = "mcu1"
            /\ Enter
            /\ UNCHANGED <<cy, times, fy, fframe>>
    /\ UNCHANGED <<lines, written, topline, cx, rows, key,
                   bpc, ncopied, by, bframe, tmode, status>>
    /\ UNCHANGED <<kvars, dvars>>

\* moveCursor(KeyArrowUp), topline = 0: t.selline-- after t.cy--.
FgMoveUpSel ==
    /\ status = "running" /\ fpc = "mcu0"
    /\ selline' = selline - 1
    /\ Return
    /\ UNCHANGED <<lines, written, topline, cx, cy, rows, key,
                   bpc, ncopied, by, bframe, tmode, status>>
    /\ UNCHANGED <<kvars, dvars>>

\* moveCursor(KeyArrowUp), topline > 0: the window or the cursor moves up.
FgMoveUpWin ==
    /\ status = "running" /\ fpc = "mcu1"
    /\ IF CursorAtTop(cy)
       THEN topline' = topline - 1 /\ UNCHANGED cy
       ELSE cy' = cy - 1 /\ UNCHANGED topline
    /\ Return
    /\ UNCHANGED <<lines, written, selline, cx, rows, key,
                   bpc, ncopied, by, bframe, tmode, status>>
    /\ UNCHANGED <<kvars, dvars>>

\* moveCursor(KeyArrowDown), first guard (a call of Rows).
FgMoveDown ==
    /\ status = "running" /\ fpc = "mc" /\ key = "ArrowDown"
    /\ IF AtLastRow(selline, Rows(lines))
       THEN Return
       ELSE fpc' = "mcd1" /\ Enter /\ UNCHANGED <<times, fy, fframe>>
    /\ UNCHANGED <<lines, written, selline, topline, cx, cy, rows, key,
                   bpc, ncopied, by, bframe, tmode, status>>
    /\ UNCHANGED <<kvars, dvars>>

\* moveCursor(KeyArrowDown), second guard (another call of Rows), t.selline++.
FgMoveDownSel ==
    /\ status = "running" /\ fpc = "mcd1"
    /\ IF TopAtLastRow(topline, Rows(lines))
       THEN Return /\ UNCHANGED selline
       ELSE /\ selline' = selline + 1
            /\ fpc' = "mcd2"
            /\ UNCHANGED <<times, fy, fframe, mvpre, pgpre>>
    /\ UNCHANGED <<lines, written, topline, cx, cy, rows, key,
                   bpc, ncopied, by, bframe, tmode, status>>
    /\ UNCHANGED <<kvars, dvars>>

\* moveCursor(KeyArrowDown): the window or the cursor moves down.
FgMoveDownWin ==
    /\ status = "running" /\ fpc = "mcd2"
    /\ IF CursorAtBottom(cy, rows)
       THEN topline' = topline + 1 /\ UNCHANGED cy
       ELSE cy' = cy + 1 /\ UNCHANGED topline
    /\ Return
    /\ UNCHANGED <<lines, written, selline, cx, rows, key,
                   bpc, ncopied, by, bframe, tmode, status>>
    /\ UNCHANGED <<kvars, dvars>>

\* draw, one iteration of the loop over y: the line at y + t.topline is
\* looked up and painted.  (The loop runs to the rows of termbox.Size(),
\* the value t.rows was set from.)
FgDrawRow ==
    /\ status = "running" /\ fpc = "draw" /\ fy < rows
    /\ fframe' = Append(fframe, fy + topline)
    /\ fy' = fy + 1
    /\ UNCHANGED <<lines, written, selline, topline, cx, cy, rows, fpc, key,
                   times, bpc, ncopied, by, bframe, tmode, status>>
    /\ UNCHANGED <<mvpre, pgpre>>
    /\ UNCHANGED <<kvars, dvars>>

\* draw, after the loop: SetCursor and Flush; an error of Flush goes
\* through keypress to fatal.
FgDrawFlush ==
    /\ status = "running" /\ fpc = "draw" /\ fy >= rows
    /\ \E ok \in BOOLEAN :
        IF ok
        THEN fpc' = "poll" /\ UNCHANGED <<tmode, status>>
        ELSE Fatal /\ UNCHANGED fpc
    /\ UNCHANGED <<lines, written, selline, topline, cx, cy, rows, key, times,
                   fy, fframe, bpc, ncopied, by, bframe>>
    /\ mvpre' = NoMove
    /\ pgpre' = NoPage
    /\ UNCHANGED <<kvars, dvars>>

\* exec: nil when no word of the selected line names a file, or when the
\* editor ran and termbox.Sync succeeded; else the error, which is fatal.
FgExec ==
    /\ status = "running" /\ fpc = "exec"
    /\ \E res \in {"nofile", "ran", "err"} :
        /\ (Line(lines, selline).line = <<>>) => res = "nofile"
        /\ IF res = "err"
           THEN Fatal /\ UNCHANGED fpc
           ELSE fpc' = "poll" /\ UNCHANGED <<tmode, status>>
    /\ UNCHANGED <<lines, written, selline, topline, cx, cy, rows, key, times,
                   fy, fframe, bpc, ncopied, by, bframe>>
    /\ UNCHANGED <<mvpre, pgpre>>
    /\ UNCHANGED <<kvars, dvars>>

\* ------------------------------------------------------------------------
\* The background goroutine: terminal.read (src/main.go:436-449)
\* ------------------------------------------------------------------------
\* The non-empty byte sequences one Write call can receive.
Chunks == UNION {[1..n -> StdinBytes] : n \in 1..MaxChunk}

\* A goroutine other than main panics: the process ends, no deferred call
\* of main runs.
Panic ==
    /\ status' = "panic"
    /\ UNCHANGED tmode

\* A Write that also keeps the window on the end of the store, as a pager
\* that follows its input would.
BgWriteFollow ==
    /\ status = "running" /\ bpc = "copy"
    /\ \E p \in Chunks :
        /\ Len(written) + Len(p) <= MaxBytes
        /\ lines' = Write(lines, p)
        /\ written' = written \o p
        /\ ncopied' = ncopied + Len(p)
    /\ topline' = (IF Rows(lines') - rows > topline
                   THEN Rows(lines') - rows ELSE topline)
    /\ UNCHANGED <<selline, cx, cy, rows, fpc, key, times, fy, fframe,
                   bpc, by, bframe, tmode, status>>
    /\ UNCHANGED <<mvpre, pgpre>>
    /\ UNCHANGED <<kvars, dvars>>

\* io.Copy read some bytes and calls t.stdin.Write with them.
BgWrite ==
    /\ status = "running" /\ bpc = "copy"
    /\ \E p \in Chunks :
        /\ Len(written) + Len(p) <= MaxBytes
        /\ lines' = Write(lines, p)
        /\ written' = written \o p
        /\ ncopied' = ncopied + Len(p)
    /\ UNCHANGED <<selline, topline, cx, cy, rows, fpc, key, times, fy, fframe,
                   bpc, by, bframe, tmode, status>>
    /\ UNCHANGED <<mvpre, pgpre>>
    /\ UNCHANGED <<kvars, dvars>>

\* io.Copy reads end of file and returns n: with n = 0 the loop continues,
\* else draw is called.
BgCopyReturn ==
    /\ status = "running" /\ bpc = "copy"
    /\ IF ncopied = 0
       THEN UNCHANGED <<bpc, by, bframe>>
       ELSE bpc' = "draw" /\ by' = 0 /\ bframe' = <<>>
    /\ UNCHANGED <<lines, written, selline, topline, cx, cy, rows, fpc, key,
                   times, fy, fframe, ncopied, tmode, status>>
    /\ UNCHANGED <<mvpre, pgpre>>
    /\ UNCHANGED <<kvars, dvars>>

\* io.Copy returns an error: panic(err).
BgCopyError ==
    /\ status = "running" /\ bpc = "copy"
    /\ Panic
    /\ UNCHANGED <<lines, written, selline, topline, cx, cy, rows, fpc, key,
                   times, fy, fframe, bpc, ncopied, by, bframe>>
    /\ UNCHANGED <<mvpre, pgpre>>
    /\ UNCHANGED <<kvars, dvars>>

\* draw called by read, one iteration of the loop over y.
BgDrawRow ==
    /\ status = "running" /\ bpc = "draw" /\ by < rows
    /\ bframe' = Append(bframe, by + topline)
    /\ by' = by + 1
    /\ UNCHANGED <<lines, written, selline, topline, cx, cy, rows, fpc, key,
                   times, fy, fframe, bpc, ncopied, tmode, status>>
    /\ UNCHANGED <<mvpre, pgpre>>
    /\ UNCHANGED <<kvars, dvars>>

\* draw called by read, after the loop: an error of Flush panics.
BgDrawFlush ==
    /\ status = "running" /\ bpc = "draw" /\ by >= rows
    /\ \E ok \in BOOLEAN :
        IF ok
        THEN bpc' = "copy" /\ ncopied' = 0 /\ UNCHANGED <<tmode, status>>
        ELSE Panic /\ UNCHANGED <<bpc, ncopied>>
    /\ UNCHANGED <<lines, written, selline, topline, cx, cy, rows, fpc, key,
                   times, fy, fframe, by, bframe>>
    /\ UNCHANGED <<mvpre, pgpre>>
    /\ UNCHANGED <<kvars, dvars>>

TNext ==
    \/ FgKeyArrow \/ FgKeyPage \/ FgKeyEnter \/ FgKeyQuit \/ FgKeyOther
    \/ FgNonKey
    \/ FgMoveUp \/ FgMoveUpSel \/ FgMoveUpWin
    \/ FgMoveDown \/ FgMoveDownSel \/ FgMoveDownWin
    \/ FgDrawRow \/ FgDrawFlush \/ FgExec
    \/ BgWrite \/ BgCopyReturn \/ BgCopyError \/ BgDrawRow \/ BgDrawFlush

\* ------------------------------------------------------------------------
\* The raw-mode variant: key codes and bytes (src/main.go:126-140)
\* ------------------------------------------------------------------------
ArrowLeft == 10000
ArrowRight == 10001
ArrowDown == 10002
ArrowUp == 10003
DelKey == 10004
HomeKey == 10005
EndKey == 10006
PageUp == 10007
PageDown == 10008

ESC == 27
LBracket == 91
LetterO == 79
Tilde == 126
LetterQ == 113

\* controlKey: r & 0x1f.
controlKey(r) == r % 32

\* seq[1] >= '0' && seq[1] <= '9'
IsDigit(b) == b >= 48 /\ b <= 57

\* The bytes the terminal can send in the model: Ctrl-Q, ESC, '[', 'O',
\* the letters A B C D F H, the digits 1..8, '~' and 'q'.
KeyBytes == {17, ESC, LBracket, LetterO, 65, 66, 67, 68, 70, 72,
             49, 50, 51, 52, 53, 54, 55, 56, Tilde, LetterQ}

\* The keys that send one byte in the model: Ctrl-Q, Escape and 'A'.
LiteralKeys == {17, ESC, 65}

\* What one key press makes the terminal send: one byte; or ESC, '[' or 'O'
\* and any third byte; or ESC, one of ESC, '1', 'q' and one of 'A', '[',
\* ESC, 'q'; or ESC '[', a digit and one of '~', 'A', ESC.
KeyPresses ==
    {<<b>> : b \in LiteralKeys}
    \cup {<<ESC, x, y>> : x \in {LBracket, LetterO}, y \in KeyBytes}
    \cup {<<ESC, x, y>> : x \in {ESC, 49, LetterQ},
                          y \in {65, LBracket, ESC, LetterQ}}
    \cup {<<ESC, LBracket, d, t>> : d \in {b \in KeyBytes : IsDigit(b)},
                                   t \in {Tilde, 65, ESC}}

\* What the terminal queues at once: the bytes of one key press, or of one
\* key press with the key 'A' pressed right after it.
KeySequences == KeyPresses \cup {q \o <<65>> : q \in KeyPresses}

\* ------------------------------------------------------------------------
\* bufio.Reader over the terminal, as readKey uses it
\* ------------------------------------------------------------------------
\* A read of the terminal device is described by d: 0 when the read returns
\* an error, else the most bytes it delivers.  With nothing to deliver and
\* no error the read blocks.
Min(a, b) == IF a <= b THEN a ELSE b
Drop(q, k) == SubSeq(q, k + 1, Len(q))

\* in.ReadRune(): the rune comes from the buffer; an empty buffer is first
\* filled by one read of the device.  (All bytes of the model are ASCII.)
ReadRune(buf, src, d) ==
    IF buf # <<>>
    THEN [r |-> Head(buf), err |-> FALSE, blocked |-> FALSE, dev |-> FALSE,
          buf |-> Tail(buf), src |-> src]
    ELSE IF d = 0
    THEN [r |-> 0, err |-> TRUE, blocked |-> FALSE, dev |-> TRUE,
          buf |-> buf, src |-> src]
    ELSE IF src = <<>>
    THEN [r |-> 0, err |-> FALSE, blocked |-> TRUE, dev |-> TRUE,
          buf |-> buf, src |-> src]
    ELSE LET k == Min(d, Len(src))
         IN  [r |-> src[1], err |-> FALSE, blocked |-> FALSE, dev |-> TRUE,
              buf |-> SubSeq(src, 2, k), src |-> Drop(src, k)]

\* in.Read(seq) with len(seq) = 2: what the buffer holds is copied, at most
\* two bytes; an empty buffer is first filled by one read of the device.
ReadSeq(buf, src, d) ==
    IF buf # <<>>
    THEN LET n == Min(2, Len(buf))
         IN  [seq |-> SubSeq(buf, 1, n), n |-> n, err |-> FALSE,
              blocked |-> FALSE, dev |-> FALSE,
              buf |-> Drop(buf, n), src |-> src]
    ELSE IF d = 0
    THEN [seq |-> <<>>, n |-> 0, err |-> TRUE, blocked |-> FALSE,
          dev |-> TRUE, buf |-> buf, src |-> src]
    ELSE IF src = <<>>
    THEN [seq |-> <<>>, n |-> 0, err |-> FALSE, blocked |-> TRUE,
          dev |-> TRUE, buf |-> buf, src |-> src]
    ELSE LET k == Min(d, Len(src))
             n == Min(2, k)
         IN  [seq |-> SubSeq(src, 1, n), n |-> n, err |-> FALSE,
              blocked |-> FALSE, dev |-> TRUE,
              buf |-> SubSeq(src, n + 1, k), src |-> Drop(src, k)]

\* ------------------------------------------------------------------------
\* readKey (src/main.go:155-224)
\* ------------------------------------------------------------------------
\* The value of a call: the rune and the error returned ("nil", "io" for an
\* error of the reader, "seq" for "could not read sequence"), the reader
\* afterwards, n of in.Read (-1 when not reached), whether a read of the
\* device returned an error, which of the three calls on the reader read
\* the device, and whether the call blocks.
Result(r, e, buf, src, n, srcfail, dev) ==
    [r |-> r, err |-> e, buf |-> buf, src |-> src, n |-> n,
     srcfail |-> srcfail, dev |-> dev, blocked |-> FALSE]
Blocked(buf, src) ==
    [r |-> 0, err |-> "nil", buf |-> buf, src |-> src, n |-> -1,
     srcfail |-> FALSE, dev |-> {}, blocked |-> TRUE]

\* The switch below with the cases '5' and '6' exchanged.
TildeKeySwapped(b) ==
    CASE b = 49 -> HomeKey
      [] b = 51 -> DelKey
      [] b = 52 -> EndKey
      [] b = 53 -> PageDown
      [] b = 54 -> PageUp
      [] b = 55 -> HomeKey
      [] b = 56 -> EndKey
      [] OTHER  -> ESC

\* The switch over seq[1] after ESC '[' digit '~' (lines 182-197); ESC when
\* no case matches (line 223).
TildeKey(b) ==
    CASE b = 49 -> HomeKey
      [] b = 51 -> DelKey
      [] b = 52 -> EndKey
      [] b = 53 -> PageUp
      [] b = 54 -> PageDown
      [] b = 55 -> HomeKey
      [] b = 56 -> EndKey
      [] OTHER  -> ESC

\* The switch over seq[1] after ESC '[' (lines 199-212).
BracketKey(b) ==
    CASE b = 65 -> ArrowUp
      [] b = 66 -> ArrowDown
      [] b = 67 -> ArrowRight
      [] b = 68 -> ArrowLeft
      [] b = 72 -> HomeKey
      [] b = 70 -> EndKey
      [] OTHER  -> ESC

\* The switch below with Home as its default case.
OKeyDefaultHome(b) ==
    CASE b = 70 -> EndKey
      [] OTHER  -> HomeKey

\* The switch over seq[1] after ESC 'O' (lines 215-220).
OKey(b) ==
    CASE b = 72 -> HomeKey
      [] b = 70 -> EndKey
      [] OTHER  -> ESC

\* The value in.Read's n must have (line 169).
SeqComplete(n) == n = 2

\* readKey after in.Read returned two bytes (lines 173-223); d3 describes
\* the read of the device the second ReadRune may need, dev the earlier
\* calls that read the device.
\* `if r != '~' { return '\x1b', err }`: err is the error of the ReadRune
\* that delivered r, nil at this point.
\* (NotTildeErrFails returns "could not read sequence" instead.)
NotTildeErrFails(err) == "seq"
NotTildeErr(err) == err

Decode(seq, buf, src, d3, dev) ==
    IF seq[1] = LBracket
    THEN IF IsDigit(seq[2])
         THEN LET t == ReadRune(buf, src, d3)
                  dv == dev \cup (IF t.dev THEN {3} ELSE {})
              IN  IF t.blocked THEN Blocked(buf, src)
                  ELSE IF t.err
                  THEN Result(ESC, "io", t.buf, t.src, 2, TRUE, dv)
                  ELSE IF t.r # Tilde
                  THEN Result(ESC, NotTildeErr("nil"), t.buf, t.src, 2,
                              FALSE, dv)
                  ELSE Result(TildeKey(seq[2]), "nil", t.buf, t.src, 2,
                              FALSE, dv)
         ELSE Result(BracketKey(seq[2]), "nil", buf, src, 2, FALSE, dev)
    ELSE IF seq[1] = LetterO
    THEN Result(OKey(seq[2]), "nil", buf, src, 2, FALSE, dev)
    ELSE Result(ESC, "nil", buf, src, 2, FALSE, dev)

\* readKey; d1, d2, d3 describe the reads of the device that the three
\* calls on the reader may need.
readKey(buf, src, d1, d2, d3) ==
    LET a == ReadRune(buf, src, d1)
        da == IF a.dev THEN {1} ELSE {}
    IN  IF a.blocked THEN Blocked(buf, src)
        ELSE IF a.err THEN Result(0, "io", a.buf, a.src, -1, TRUE, da)
        ELSE IF a.r # ESC THEN Result(a.r, "nil", a.buf, a.src, -1, FALSE, da)
        ELSE LET s == ReadSeq(a.buf, a.src, d2)
                 ds == da \cup (IF s.dev THEN {2} ELSE {})
             IN  IF s.blocked THEN Blocked(buf, src)
                 ELSE IF s.err
                 THEN Result(-1, "io", s.buf, s.src, s.n, TRUE, ds)
                 ELSE IF ~SeqComplete(s.n)
                 THEN Result(-1, "seq", s.buf, s.src, s.n, FALSE, ds)
                 ELSE Decode(s.seq, s.buf, s.src, d3, ds)

\* ------------------------------------------------------------------------
\* The raw-mode variant: main's loop (src/main.go:15-47) and keypress
\* (src/main.go:99-124)
\* ------------------------------------------------------------------------
NoCall == [pre |-> <<>>, r |-> 0, err |-> "none", n |-> -1, used |-> 0,
           srcfail |-> FALSE]

\* After enableRawMode, before getWindowSize.
KInit ==
    /\ ksrc = <<>>
    /\ kbuf = <<>>
    /\ kcall = NoCall
    /\ kcx = 0
    /\ kcols = 0
    /\ kpc = "size"
    /\ kmode = "raw"
    /\ kstatus = "running"
    /\ kreason = "none"

\* fatal (lines 25-28): disableRawMode, then log.Fatal(err).
KFatal(err) ==
    /\ kmode' = "cooked"
    /\ kstatus' = "fatal"
    /\ kreason' = err

\* getWindowSize and the construction of t (lines 29-38).
KWindowSize ==
    /\ kstatus = "running" /\ kpc = "size"
    /\ \/ /\ kcols' = TermCols
          /\ kpc' = "draw"
          /\ UNCHANGED <<kmode, kstatus, kreason>>
       \/ /\ KFatal("size")
          /\ UNCHANGED <<kcols, kpc>>
    /\ UNCHANGED <<ksrc, kbuf, kcall, kcx>>
    /\ UNCHANGED <<tvars, dvars>>

\* A key is pressed: the terminal queues the bytes of one key sequence.
KPress ==
    /\ kstatus = "running"
    /\ Len(kbuf) + Len(ksrc) <= MaxTypeAhead
    /\ \E q \in KeySequences : ksrc' = ksrc \o q
    /\ kcall' = NoCall
    /\ UNCHANGED <<kbuf, kcx, kcols, kpc, kmode, kstatus, kreason>>
    /\ UNCHANGED <<tvars, dvars>>

\* t.draw() of the loop (lines 40-42).
KDraw ==
    /\ kstatus = "running" /\ kpc = "draw"
    /\ \E ok \in BOOLEAN :
        IF ok
        THEN kpc' = "keypress" /\ UNCHANGED <<kmode, kstatus, kreason>>
        ELSE KFatal("draw") /\ UNCHANGED kpc
    /\ kcall' = NoCall
    /\ UNCHANGED <<ksrc, kbuf, kcx, kcols>>
    /\ UNCHANGED <<tvars, dvars>>

\* The switch of keypress over the key read (lines 104-123): the error it
\* returns and the new t.cx.  moveCursor has no statement.
Dispatch(r, x, cols) ==
    IF r = controlKey(LetterQ) THEN [err |-> "errExit", cx |-> x]
    ELSE IF r = HomeKey THEN [err |-> "nil", cx |-> 0]
    ELSE IF r = EndKey THEN [err |-> "nil", cx |-> cols - 1]
    ELSE [err |-> "nil", cx |-> x]

\* t.keypress() of the loop (lines 43-45): readKey, the switch, and fatal
\* on any error returned.  (d1, d2, d3 are 0 for the calls on the reader
\* that read nothing from the device.)
KKeypress ==
    /\ kstatus = "running" /\ kpc = "keypress"
    /\ \E d1, d2, d3 \in 0..Len(ksrc) :
        LET k == readKey(kbuf, ksrc, d1, d2, d3)
            pre == kbuf \o ksrc
            e == IF k.err # "nil" THEN [err |-> k.err, cx |-> kcx]
                 ELSE Dispatch(k.r, kcx, kcols)
        IN  /\ ~k.blocked
            /\ (1 \notin k.dev => d1 = 0)
            /\ (2 \notin k.dev => d2 = 0)
            /\ (3 \notin k.dev => d3 = 0)
            /\ kbuf' = k.buf
            /\ ksrc' = k.src
            /\ kcall' = [pre |-> pre, r |-> k.r, err |-> k.err, n |-> k.n,
                         used |-> Len(pre) - Len(k.buf) - Len(k.src),
                         srcfail |-> k.srcfail]
            /\ kcx' = e.cx
            /\ IF e.err # "nil"
               THEN KFatal(e.err) /\ UNCHANGED kpc
               ELSE kpc' = "draw" /\ UNCHANGED <<kmode, kstatus, kreason>>
    /\ UNCHANGED kcols
    /\ UNCHANGED <<tvars, dvars>>

KNext == KWindowSize \/ KPress \/ KDraw \/ KKeypress

\* ------------------------------------------------------------------------
\* draw, one row: the cells of a line (termbox variant)
\* ------------------------------------------------------------------------
\* The number of columns termbox.Size reports while a row is painted.
DrawCols == 12

\* The bytes a painted line can hold.
DrawBytes == {LetterA, LetterB, TAB}

\* The lines a row can be painted from.
DrawLines == UNION {[1..n -> DrawBytes] : n \in 0..MaxLine}

\* The SetCell calls of `if r == '\t'`: for i := 1; i <= 8; i++ paints a
\* blank at x and advances x.
TabCells(x) == [i \in 1..8 |-> [x |-> x + i - 1, ch |-> SPACE]]

\* The SetCell calls of one iteration of the range loop over the line.
RuneCells(x, r) == IF r = TAB THEN TabCells(x) ELSE <<[x |-> x, ch |-> r]>>

\* The SetCell calls of `for ; x < cols; x++`.
PadCells(x, cols) ==
    IF x < cols THEN [i \in 1..(cols - x) |-> [x |-> x + i - 1, ch |-> SPACE]]
    ELSE <<>>

\* No row is being followed.
DIdle ==
    /\ dline = <<>> /\ di = 0 /\ dx = 0
    /\ dat = <<>> /\ dcells = <<>> /\ dpc = "idle"

\* Line returned a line and x := 0.
DInit ==
    /\ dline \in DrawLines
    /\ di = 0 /\ dx = 0
    /\ dat = <<>> /\ dcells = <<>> /\ dpc = "runes"

\* One iteration of `for _, r := range string(line)`.
DrawRune ==
    /\ dpc = "runes" /\ di < Len(dline)
    /\ LET r == dline[di + 1]
           cells == RuneCells(dx, r)
       IN /\ dat' = Append(dat, dx)
          /\ dcells' = dcells \o cells
          /\ dx' = dx + Len(cells)
    /\ di' = di + 1
    /\ UNCHANGED <<dline, dpc>>
    /\ UNCHANGED <<tvars, kvars>>

\* The range loop ends; the rest of the row is blanked.
DrawPad ==
    /\ dpc = "runes" /\ di = Len(dline)
    /\ dcells' = dcells \o PadCells(dx, DrawCols)
    /\ dx' = (IF dx < DrawCols THEN DrawCols ELSE dx)
    /\ dpc' = "done"
    /\ UNCHANGED <<dline, di, dat>>
    /\ UNCHANGED <<tvars, kvars>>

DNext == DrawRune \/ DrawPad

\* ------------------------------------------------------------------------
\* Specifications
\* ------------------------------------------------------------------------
\* The termbox variant; the raw-mode variant does not run.
Init == TInit /\ KInit /\ DIdle
Next == TNext
Spec == Init /\ [][Next]_vars

\* The steps a goroutine takes by itself once it can run: the calls of
\* moveCursor, draw and exec of main's loop, and the draw of terminal.read.
\* The others wait for the terminal or for standard input.
FgSteps ==
    \/ FgMoveUp \/ FgMoveUpSel \/ FgMoveUpWin
    \/ FgMoveDown \/ FgMoveDownSel \/ FgMoveDownWin
    \/ FgDrawRow \/ FgDrawFlush \/ FgExec
BgSteps == BgDrawRow \/ BgDrawFlush

\* The termbox variant under the scheduler of the Go runtime: a goroutine
\* that can run does run.  Nothing obliges the terminal to deliver a key,
\* or standard input to deliver bytes, an error or its end.
SpecFair == Init /\ [][Next]_vars /\ WF_vars(FgSteps) /\ WF_vars(BgSteps)

\* The raw-mode variant; the termbox variant does not run.
InitKey == KInit /\ TInit /\ rows = 1 /\ DIdle
NextKey == KNext
SpecKey == InitKey /\ [][NextKey]_vars

\* The painting of one row of draw, for every line of DrawLines; neither
\* variant runs.
InitDraw == DInit /\ KInit /\ TInit /\ rows = 1
NextDraw == DNext
SpecDraw == InitDraw /\ [][NextDraw]_vars

\* ------------------------------------------------------------------------
\* Properties of the viewport and the line store (specification Spec)
\* ------------------------------------------------------------------------
Max(a, b) == IF a >= b THEN a ELSE b

\* The positions of moveCursor between two of its assignments.
MidMove == {"mcu0", "mcu1", "mcd2"}

\* C1: whenever no call of moveCursor is between two of its assignments
\* (that is, after every completed ArrowUp / ArrowDown, and so after every
\* PageUp / PageDown), 0 <= top <= selected < top + rows.
C1_SelectionInWindow ==
    (fpc \notin MidMove) =>
        /\ topline >= 0
        /\ topline <= selline
        /\ selline < topline + rows

\* C1 witness: an ArrowDown has completed and has scrolled the window.
C1_Witness ==
    /\ fpc = "draw" /\ fy = 0 /\ key = "ArrowDown"
    /\ topline > 0 /\ selline = topline + rows - 1

\* C2: in every state, also between the steps of a transition and however
\* the Write calls interleave, selected <= max(0, Rows() - 1).
C2_SelectionInStore ==
    selline <= Max(0, Rows(lines) - 1)

\* C2 witness: moveCursor has just moved the selection onto the last line of
\* a store that the background goroutine has filled.
C2_Witness ==
    /\ fpc = "mcd2" /\ selline = Rows(lines) - 1 /\ selline > 0
    /\ ncopied > 0

\* The number of newlines in a byte sequence.
NewlineCount(bytes) == Cardinality({i \in 1..Len(bytes) : bytes[i] = NL})

\* The number of lines the bytes imply when the trailing line counts only
\* once it holds a byte.
ImpliedCount(bytes) ==
    NewlineCount(bytes)
        + (IF bytes # <<>> /\ bytes[Len(bytes)] # NL THEN 1 ELSE 0)

\* C3: Rows() equals the number of newline-terminated lines of the bytes
\* appended so far, plus one for the trailing line only if it has received
\* a byte.  (Violated: Write starts a line at every newline.)
C3_CountIsImplied ==
    Rows(lines) = ImpliedCount(written)

\* The position of the k-th newline of bytes (k >= 1), 0 for k = 0, and one
\* past the end when bytes holds fewer than k newlines.
NewlinePos(bytes, k) ==
    IF k = 0 THEN 0
    ELSE LET at == {i \in 1..Len(bytes) :
                      /\ bytes[i] = NL
                      /\ Cardinality({j \in 1..i : bytes[j] = NL}) = k}
         IN  IF at = {} THEN Len(bytes) + 1 ELSE CHOOSE i \in at : TRUE

\* The i-th (from 0) newline-delimited segment of bytes.
Segment(bytes, i) ==
    SubSeq(bytes, NewlinePos(bytes, i) + 1, NewlinePos(bytes, i + 1) - 1)

\* The indices the properties range over: every line and some past the end.
Indices == 0..(MaxBytes + 2)

\* C4, the results: Line(i) fails exactly when i >= Rows(), and otherwise
\* returns the i-th newline-delimited segment of the bytes appended so far.
LineResults ==
    \A i \in Indices :
        /\ Line(lines, i).err <=> i >= Rows(lines)
        /\ ~Line(lines, i).err => Line(lines, i).line = Segment(written, i)

\* C4: the results above hold in every state, and the steps that call Line
\* (a row of draw, exec) leave the store as it is.
C4_LineContract ==
    /\ []LineResults
    /\ [][(FgDrawRow \/ BgDrawRow \/ FgExec) => UNCHANGED <<lines, written>>]_vars

\* C4 witness: a store of three lines whose last line is in progress;
\* Line(2) is found and Line(3) is not.
C4_Witness ==
    /\ Rows(lines) = 3
    /\ ~Line(lines, 2).err /\ Line(lines, 3).err
    /\ written[Len(written)] # NL

\* C8: no terminated state has the terminal still in raw mode.  (Violated:
\* a panic of the background goroutine ends the process without
\* termbox.Close.)
C8_RestoredOnExit ==
    status # "running" => tmode = "cooked"

\* C10 as claimed: the Home key event sets selected to 0 and the End key
\* event sets it to the last available line.  (Violated: keypress has no
\* case for either key.)
C10_HomeEndSelect ==
    [][/\ (FgKeyOther /\ key' = "Home") => selline' = 0
       /\ (FgKeyOther /\ key' = "End") =>
              selline' = Max(0, Rows(lines) - 1)]_vars

\* C10 as amended: in the termbox variant the Home and End key events leave
\* selected, top and the cursor as they are.
C10_HomeEndChangeNothing ==
    [][(FgKeyOther /\ key' \in {"Home", "End"}) =>
           UNCHANGED <<selline, topline, cx, cy>>]_vars

\* C10 witness: Home has been handled with the selection below the first
\* line and above the last one.
C10_Witness ==
    /\ fpc = "draw" /\ fy = 0 /\ key = "Home"
    /\ selline > 0 /\ selline < Rows(lines) - 1

\* ------------------------------------------------------------------------
\* Properties of readKey and of the raw-mode loop (specification SpecKey)
\* ------------------------------------------------------------------------
IsPrefix(p, q) == Len(p) <= Len(q) /\ SubSeq(q, 1, Len(p)) = p

\* The recognized escape sequences and their keys.
RecognizedKeys ==
    { <<<<ESC, LBracket, 65>>, ArrowUp>>,
      <<<<ESC, LBracket, 66>>, ArrowDown>>,
      <<<<ESC, LBracket, 67>>, ArrowRight>>,
      <<<<ESC, LBracket, 68>>, ArrowLeft>>,
      <<<<ESC, LBracket, 72>>, HomeKey>>,
      <<<<ESC, LBracket, 70>>, EndKey>>,
      <<<<ESC, LetterO, 72>>, HomeKey>>,
      <<<<ESC, LetterO, 70>>, EndKey>>,
      <<<<ESC, LBracket, 49, Tilde>>, HomeKey>>,
      <<<<ESC, LBracket, 55, Tilde>>, HomeKey>>,
      <<<<ESC, LBracket, 51, Tilde>>, DelKey>>,
      <<<<ESC, LBracket, 52, Tilde>>, EndKey>>,
      <<<<ESC, LBracket, 56, Tilde>>, EndKey>>,
      <<<<ESC, LBracket, 53, Tilde>>, PageUp>>,
      <<<<ESC, LBracket, 54, Tilde>>, PageDown>> }

\* A call of readKey has returned and nothing has happened since.
Called == kcall.err # "none"

\* C5: a call in which no read of the device failed and in.Read delivered
\* both bytes returns, for input that starts with a recognized sequence, the
\* key of the table, having consumed exactly the bytes of the sequence; and
\* for input that starts with another rune than ESC, that rune, having
\* consumed it alone.
C5_DecodeTable ==
    (Called /\ ~kcall.srcfail /\ kcall.n # 1) =>
        /\ kcall.pre[1] # ESC =>
              (kcall.r = kcall.pre[1] /\ kcall.used = 1 /\ kcall.err = "nil")
        /\ \A e \in RecognizedKeys :
              IsPrefix(e[1], kcall.pre) =>
                  (kcall.r = e[2] /\ kcall.used = Len(e[1])
                     /\ kcall.err = "nil")

\* C5 witness: ESC [ 5 ~ with another key queued behind it was decoded as
\* PageUp.
C5_Witness ==
    /\ Called /\ IsPrefix(<<ESC, LBracket, 53, Tilde>>, kcall.pre)
    /\ Len(kcall.pre) > 4 /\ kcall.r = PageUp

\* The two bytes x y after ESC form no recognized sequence and start none.
Unrecognized(x, y) ==
    \/ x \notin {LBracket, LetterO}
    \/ x = LBracket /\ ~IsDigit(y) /\ y \notin {65, 66, 67, 68, 72, 70}
    \/ x = LetterO /\ y \notin {72, 70}

\* C6: when in.Read delivered two bytes after ESC that form no recognized
\* sequence, readKey returns ESC and no error, and the loop goes on.
C6_UnrecognizedIsEsc ==
    (/\ Called /\ kcall.n = 2 /\ kcall.pre[1] = ESC
     /\ Unrecognized(kcall.pre[2], kcall.pre[3])) =>
        /\ kcall.r = ESC /\ kcall.err = "nil"
        /\ kstatus = "running" /\ kpc = "draw"

\* C6 witness: ESC O q was read and the loop is about to draw again.
C6_Witness ==
    /\ Called /\ kcall.n = 2
    /\ IsPrefix(<<ESC, LetterO, LetterQ>>, kcall.pre)
    /\ kcall.r = ESC /\ kpc = "draw"

\* C7: readKey returns an error only when a read of the device returned
\* one.  (Violated: "could not read sequence" when in.Read delivers one
\* byte.)
C7_ErrorOnlyFromSource ==
    (Called /\ kcall.err # "nil") => kcall.srcfail

\* C9: a quit key event never ends the loop through fatal.  (Violated in
\* the raw-mode loop: main hands errExit to fatal.)
C9_QuitIsClean ==
    ~(kstatus = "fatal" /\ kreason = "errExit")

\* ------------------------------------------------------------------------
\* C11: draw expands a tab to the next 8-column tab stop: the rune that
\* follows a tab is painted at the next column that is a multiple of 8, as
\* 'b' of "a\tb" at column 8.  The code paints 8 blanks for a tab at any
\* column, so 'b' lands at column 9.
TabStopAfter(x) == ((x \div 8) + 1) * 8

C11_TabStops ==
    \A i \in 1..Len(dat) :
        (i > 1 /\ dline[i - 1] = TAB) => dat[i] = TabStopAfter(dat[i - 1])

\* ------------------------------------------------------------------------
\* C12: every batch the background goroutine appends is eventually followed
\* by a render that goroutine triggers, while standard input stays open and
\* without a key event.  ncopied > 0 says io.Copy has written a batch that
\* read has not drawn; BgDrawFlush sets it to 0 when the draw of read ends.
C12_BatchRendered ==
    (status = "running" /\ ncopied > 0) ~> (ncopied = 0 \/ status # "running")

\* ------------------------------------------------------------------------
\* C13: every frame draw produces, from main's loop or from terminal.read
\* while a key event is being handled, places the cursor at row
\* selline - topline (and column cx).  draw ends with SetCursor(t.cx, t.cy):
\* the claim is that t.cy is selline - topline whenever that call is made.
C13_CursorAtSelection ==
    [][(FgDrawFlush \/ BgDrawFlush) => cy = selline - topline]_vars

\* The same for the frames of main's loop alone.
C13_ForegroundCursor == [][FgDrawFlush => cy = selline - topline]_vars

\* ------------------------------------------------------------------------
\* C14: after every completed transition topline <= max(0, Rows() - rows):
\* the window never starts past the line that puts the last line of the
\* store on its last row.  (It holds between the assignments of a
\* transition as well.)
C14_TopBounded == topline <= Max(0, Rows(lines) - rows)

\* The window has slid down to the bound: the last line of the store is
\* on the last row after ArrowDown returned.
C14_Witness ==
    /\ fpc = "draw" /\ key = "ArrowDown"
    /\ topline > 0 /\ topline = Rows(lines) - rows
    /\ selline = Rows(lines) - 1

\* ------------------------------------------------------------------------
\* A call of readKey read ESC '[', a digit and a fourth byte that is not
\* '~', and no read of the device failed.
DigitNotTilde ==
    /\ Called /\ kcall.n = 2 /\ ~kcall.srcfail
    /\ Len(kcall.pre) >= 4
    /\ kcall.pre[1] = ESC /\ kcall.pre[2] = LBracket
    /\ IsDigit(kcall.pre[3]) /\ kcall.pre[4] # Tilde

\* C15 as stated: ESC '[' digit followed by a byte other than '~' is a
\* decode failure, readKey returns a non-nil error.
C15_NotTildeFails == DigitNotTilde => kcall.err # "nil"

\* C15 as the code has it: ESC '[' digit followed by a byte other than '~'
\* returns the key ESC and a nil error, the four bytes consumed.
C15_NotTildeIsEsc ==
    DigitNotTilde =>
        (kcall.r = ESC /\ kcall.err = "nil" /\ kcall.used = 4)

\* C15 witness: ESC [ 5 A was read.
C15_Witness ==
    /\ DigitNotTilde /\ kcall.pre[3] = 53 /\ kcall.pre[4] = 65
    /\ kpc = "draw"

\* ------------------------------------------------------------------------
\* A call of moveCursor that got past its first guard returns in this step.
\* (mvpre.done is false from that guard to the return.)
MoveReturns == ~mvpre.done /\ mvpre'.done

\* C16: moveCursor(KeyArrowDown) changes nothing when selline >= Rows() - 1,
\* Rows() read when the move starts; otherwise it returns with selline one
\* more than it found, and with topline one more exactly when it found
\* selline - topline = rows - 1, else with topline as found.
C16_MoveDown ==
    [][/\ (FgMoveDown /\ selline >= Rows(lines) - 1) =>
             (/\ UNCHANGED <<selline, topline, cy>>
              /\ mvpre'.done /\ fpc' \in {"mc", "draw"})
       /\ (FgMoveDown /\ selline < Rows(lines) - 1) =>
             (~mvpre'.done /\ fpc' = "mcd1")
       /\ (key = "ArrowDown" /\ MoveReturns) =>
             /\ selline' = mvpre.sel + 1
             /\ topline' = mvpre.top +
                    (IF mvpre.sel - mvpre.top = rows - 1 THEN 1 ELSE 0)
      ]_vars

\* C16 witness: ArrowDown found the selection on the last row of the window,
\* with a line below it in the store (which had grown since the window was
\* last drawn or not), and has returned with the window one line down.
C16_Witness ==
    /\ fpc = "draw" /\ key = "ArrowDown" /\ mvpre # NoMove /\ mvpre.done
    /\ rows = MaxRows /\ mvpre.sel - mvpre.top = rows - 1
    /\ mvpre.n < Rows(lines)
    /\ selline = mvpre.sel + 1 /\ topline = mvpre.top + 1

\* C17: moveCursor(KeyArrowUp) changes nothing when selline = 0; otherwise it
\* returns with selline one less than it found, and with topline one less
\* exactly when it found selline = topline, else with topline as found.
C17_MoveUp ==
    [][/\ (FgMoveUp /\ selline = 0) =>
             (/\ UNCHANGED <<selline, topline, cy>>
              /\ mvpre'.done /\ fpc' \in {"mc", "draw"})
       /\ (FgMoveUp /\ selline # 0) => ~mvpre'.done
       /\ (key = "ArrowUp" /\ MoveReturns) =>
             /\ selline' = mvpre.sel - 1
             /\ topline' = mvpre.top -
                    (IF mvpre.sel = mvpre.top THEN 1 ELSE 0)
      ]_vars

\* C17 witness: ArrowUp found the selection on the top row of a window that
\* was scrolled, and has returned with the window one line up.
C17_Witness ==
    /\ fpc = "draw" /\ key = "ArrowUp" /\ mvpre # NoMove /\ mvpre.done
    /\ rows = MaxRows /\ mvpre.sel = mvpre.top
    /\ selline = mvpre.sel - 1 /\ topline = mvpre.top - 1

\* ------------------------------------------------------------------------
\* The last call of moveCursor of a KeyPgup / KeyPgdn event returns in this
\* step.
PageReturns == ~pgpre.done /\ pgpre'.done

\* C18: a KeyPgup / KeyPgdn event is rows calls of moveCursor with
\* KeyArrowUp / KeyArrowDown (each as C17 / C16 have it) and nothing else;
\* PgUp leaves selline = max(sel - rows, 0) and PgDn, when Rows() is at the
\* end what it was at the start, selline = min(sel + rows, max(sel, n - 1)),
\* for sel and n the values of selline and Rows() the event found.
C18_PageIsRowsMoves ==
    [][/\ FgKeyPage =>
             (/\ times' = rows
              /\ UNCHANGED <<selline, topline, cx, cy>>
              /\ key' = (IF pgpre'.ev = "Pgup" THEN "ArrowUp"
                         ELSE "ArrowDown"))
       /\ (~pgpre.done) =>
             (/\ key = (IF pgpre.ev = "Pgup" THEN "ArrowUp" ELSE "ArrowDown")
              /\ fpc \in {"mc", "mcu0", "mcu1", "mcd1", "mcd2"})
       /\ PageReturns =>
             /\ pgpre'.calls = rows
             /\ pgpre.ev = "Pgup" => selline' = Max(pgpre.sel - rows, 0)
             /\ (pgpre.ev = "Pgdn" /\ Rows(lines') = pgpre.n) =>
                    selline' = Min(pgpre.sel + rows,
                                   Max(pgpre.sel, pgpre.n - 1))
      ]_vars

\* C18 witness: PgDn with more than one row moved the selection by rows
\* lines and slid the window on the way.
C18_Witness ==
    /\ fpc = "draw" /\ pgpre.ev = "Pgdn" /\ pgpre.done
    /\ rows = MaxRows /\ rows > 1 /\ pgpre.calls = rows
    /\ pgpre.n = Rows(lines) /\ pgpre.sel + rows < pgpre.n
    /\ selline = pgpre.sel + rows /\ topline > 0

\* ------------------------------------------------------------------------
\* The steps of the background goroutine.
BgAll == BgWrite \/ BgCopyReturn \/ BgCopyError \/ BgDrawRow \/ BgDrawFlush

\* C19: no step of the background goroutine (io.Copy's reads and Writes,
\* the draw it calls, its panics) changes selline, topline, cy or cx.
C19_BackgroundKeepsViewport ==
    [][BgAll => UNCHANGED <<selline, topline, cy, cx>>]_vars

\* C19 witness: the background goroutine has written the store and drawn a
\* whole frame of it while the selection is off the first line and the
\* window is scrolled.
C19_Witness ==
    /\ bpc = "copy" /\ ncopied = 0 /\ written # <<>>
    /\ Len(bframe) = rows /\ rows = MaxRows
    /\ topline > 0 /\ cy > 0 /\ selline = topline + cy

\* ------------------------------------------------------------------------
\* The rows of a frame show consecutive lines: row y shows line T + y for
\* the T of row 0.
OneWindow(frame) == \A y \in 1..Len(frame) : frame[y] = frame[1] + (y - 1)

\* C20: every frame draw completes shows one window of the store: for one
\* value T of topline row y shows line T + y (or is blank), also when
\* terminal.read draws while main's loop moves the window.
C20_FrameOneWindow ==
    /\ (Len(fframe) = rows => OneWindow(fframe))
    /\ (Len(bframe) = rows => OneWindow(bframe))

\* The same for the frames of main's loop alone.
C20_ForegroundFrame == Len(fframe) = rows => OneWindow(fframe)

====
